---------------------------- MODULE Spec2Model ----------------------------
(***************************************************************************)
(* Model of pymobiledevice3/bonjour.py: the multi-interface Bonjour        *)
(* browse.  One session (multicast client, service browser, listener with  *)
(* its resolution task) per interface address, a shared sleep, and the     *)
(* final loop that collects the answers and tears the sessions down.       *)
(*                                                                         *)
(* The asyncio event loop is single-threaded and cooperative: an action of *)
(* the model is the code that runs between two suspension points.  Text    *)
(* that the code splits, searches or concatenates (interface addresses,    *)
(* address literals) is a sequence of one-character strings.               *)
(***************************************************************************)
EXTENDS Integers, Sequences, FiniteSets, TLC

(***************************************************************************)
(* Bounds of the model.                                                    *)
(***************************************************************************)
\* Most notifications ever delivered to one listener's queue.
MaxNotifications == 2

(***************************************************************************)
(* Program constants.                                                      *)
(***************************************************************************)
REMOTEPAIRING_SERVICE_NAME == "_remotepairing-manual-pairing._tcp.local."
MOBDEV2_SERVICE_NAME == "_apple-mobdev2._tcp.local."
REMOTED_SERVICE_NAME == "_remoted._tcp.local."

\* sys.platform values the code distinguishes (== 'win32' or not).
Platforms == {"linux", "win32"}

DEFAULT_BONJOUR_TIMEOUT(platform) == IF platform # "win32" THEN 1 ELSE 2

\* Python's None, where the other values are strings.
None == "None"

\* The None of listener.port (Optional[int]), where the other values are
\* port numbers.
NoPort == -1

(***************************************************************************)
(* Text helpers: str.split('%'), the `in` test, decimal and hexadecimal    *)
(* formatting.                                                             *)
(***************************************************************************)
Contains(s, c) == \E k \in 1..Len(s) : s[k] = c

\* Index of the first occurrence of c in s, or Len(s)+1 when there is none.
RECURSIVE IndexOf(_, _, _)
IndexOf(s, c, k) ==
    IF k > Len(s) THEN k
    ELSE IF s[k] = c THEN k
    ELSE IndexOf(s, c, k + 1)

\* str.split(c): the pieces of s between the occurrences of c.
RECURSIVE Split(_, _)
Split(s, c) ==
    LET k == IndexOf(s, c, 1)
    IN  IF k > Len(s) THEN <<s>>
        ELSE <<SubSeq(s, 1, k - 1)>> \o Split(SubSeq(s, k + 1, Len(s)), c)

Digits == <<"0", "1", "2", "3", "4", "5", "6", "7", "8", "9",
            "a", "b", "c", "d", "e", "f">>

\* The digits of n in the given base, without leading zeros ("%u", "%x").
RECURSIVE Numeral(_, _)
Numeral(n, base) ==
    IF n < base THEN <<Digits[n + 1]>>
    ELSE Numeral(n \div base, base) \o <<Digits[(n % base) + 1]>>

\* str(n) of a non-negative integer.
Str(n) == Numeral(n, 10)

(***************************************************************************)
(* socket.inet_ntop.  A packed IPv4 address is 4 bytes, a packed IPv6      *)
(* address 16 bytes.                                                       *)
(***************************************************************************)
AF_INET == "AF_INET"
AF_INET6 == "AF_INET6"

\* "%u.%u.%u.%u"
inet_ntop4(p) ==
    Str(p[1]) \o <<".">> \o Str(p[2]) \o <<".">> \o Str(p[3]) \o <<".">> \o Str(p[4])

\* The eight 16-bit groups of a packed IPv6 address.
Words(p) == [k \in 1..8 |-> p[2 * k - 1] * 256 + p[2 * k]]

\* Length of the run of zero groups of w that starts at group k.
RECURSIVE ZeroRun(_, _)
ZeroRun(w, k) ==
    IF k > 8 \/ w[k] # 0 THEN 0 ELSE 1 + ZeroRun(w, k + 1)

\* The first longest run of at least two zero groups: <<base, len>>, or
\* <<0, 0>> when there is none.
BestRun(w) ==
    LET runs == {k \in 1..8 : ZeroRun(w, k) >= 2}
    IN  IF runs = {} THEN <<0, 0>>
        ELSE LET b == CHOOSE k \in runs :
                        \A j \in runs : \/ ZeroRun(w, j) < ZeroRun(w, k)
                                         \/ (ZeroRun(w, j) = ZeroRun(w, k) /\ k <= j)
             IN  <<b, ZeroRun(w, b)>>

\* Groups k..8 of w in text, the best run of zeros written as "::".
RECURSIVE Groups(_, _, _)
Groups(w, best, k) ==
    IF k > 8 THEN
        IF best[1] # 0 /\ best[1] + best[2] = 9 THEN <<":">> ELSE <<>>
    ELSE IF best[1] # 0 /\ k >= best[1] /\ k < best[1] + best[2] THEN
        (IF k = best[1] THEN <<":">> ELSE <<>>) \o Groups(w, best, k + 1)
    ELSE
        (IF k # 1 THEN <<":">> ELSE <<>>) \o Numeral(w[k], 16)
            \o Groups(w, best, k + 1)

inet_ntop6(p) == Groups(Words(p), BestRun(Words(p)), 1)

inet_ntop(family, p) == IF family = AF_INET THEN inet_ntop4(p) ELSE inet_ntop6(p)

(***************************************************************************)
(* Text constants of the modelled network.                                 *)
(***************************************************************************)
LOOPBACK4 == <<"1", "2", "7", ".", "0", ".", "0", ".", "1">>
LOOPBACK6 == <<":", ":", "1">>
LINKLOCAL1 == <<"f", "e", "8", "0", ":", ":", "1">>

Text_10_0_0_2 == <<"1", "0", ".", "0", ".", "0", ".", "2">>
Text_10_0_1_2 == <<"1", "0", ".", "0", ".", "1", ".", "2">>
Text_10_0_2_2 == <<"1", "0", ".", "0", ".", "2", ".", "2">>
Text_fe80_5 == <<"f", "e", "8", "0", ":", ":", "5">>
Text_fe80_7 == <<"f", "e", "8", "0", ":", ":", "7">>
Text_lo == <<"l", "o">>
Text_en0 == <<"e", "n", "0">>
Text_en1 == <<"e", "n", "1">>

(***************************************************************************)
(* ifaddr.get_adapters(): an adapter has a nice_name and a list of ips.    *)
(* An ifaddr IP holds a string (IPv4) or a tuple (address, flowinfo,       *)
(* scope_id) (IPv6); here: is_IPv6, the address text and the scope id.     *)
(***************************************************************************)
IPv4(text) == [is_IPv6 |-> FALSE, ip |-> text, scope_id |-> 0]
IPv6(text, scope) == [is_IPv6 |-> TRUE, ip |-> text, scope_id |-> scope]

\* A Unix host: every adapter lists its IPv4 address first.
UnixAdapters ==
    << [nice_name |-> Text_lo,
        ips |-> <<IPv4(LOOPBACK4), IPv6(LOOPBACK6, 0), IPv6(LINKLOCAL1, 1)>>],
       [nice_name |-> Text_en0,
        ips |-> <<IPv4(Text_10_0_0_2), IPv6(Text_fe80_5, 4)>>],
       [nice_name |-> Text_en1,
        ips |-> <<IPv4(Text_10_0_1_2), IPv6(Text_fe80_7, 5)>>] >>

\* A host whose adapters list an IPv6 address first.
V6FirstAdapters ==
    << [nice_name |-> Text_lo,
        ips |-> <<IPv6(LOOPBACK6, 0), IPv4(LOOPBACK4)>>],
       [nice_name |-> Text_en0,
        ips |-> <<IPv6(Text_fe80_5, 4), IPv4(Text_10_0_0_2)>>] >>

\* The adapter lists get_adapters() may return.
AdapterLists == {<<>>, UnixAdapters, V6FirstAdapters}

\* The ips of one adapter that pass the non-Windows filter of get_ipv6_ips.
RECURSIVE AdapterIPv6(_, _)
AdapterIPv6(adapter, k) ==
    IF k > Len(adapter.ips) THEN <<>>
    ELSE LET ip == adapter.ips[k]
         IN  (IF ~ip.is_IPv6 THEN <<>>
              ELSE IF ip.ip \in {LOOPBACK6, LINKLOCAL1} THEN <<>>
              ELSE <<ip.ip \o <<"%">> \o adapter.nice_name>>)
             \o AdapterIPv6(adapter, k + 1)

RECURSIVE UnixIPv6(_, _)
UnixIPv6(adapters, a) ==
    IF a > Len(adapters) THEN <<>>
    ELSE AdapterIPv6(adapters[a], 1) \o UnixIPv6(adapters, a + 1)

\* The win32 branch: the first ip of every adapter, when it is IPv6.
RECURSIVE Win32IPv6(_, _)
Win32IPv6(adapters, a) ==
    IF a > Len(adapters) THEN <<>>
    ELSE LET first == adapters[a].ips[1]
         IN  (IF first.is_IPv6
              THEN <<first.ip \o <<"%">> \o Str(first.scope_id)>>
              ELSE <<>>)
             \o Win32IPv6(adapters, a + 1)

get_ipv6_ips(platform, adapters) ==
    IF platform = "win32" THEN Win32IPv6(adapters, 1) ELSE UnixIPv6(adapters, 1)

\* The ips of one adapter that browse_ipv4 keeps.
RECURSIVE AdapterIPv4(_, _)
AdapterIPv4(adapter, k) ==
    IF k > Len(adapter.ips) THEN <<>>
    ELSE LET ip == adapter.ips[k]
         IN  (IF ~ip.is_IPv6 /\ ip.ip = LOOPBACK4 THEN <<>>
              ELSE IF ip.is_IPv6 THEN <<>>
              ELSE <<ip.ip>>)
             \o AdapterIPv4(adapter, k + 1)

RECURSIVE get_ipv4_ips(_, _)
get_ipv4_ips(adapters, a) ==
    IF a > Len(adapters) THEN <<>>
    ELSE AdapterIPv4(adapters[a], 1) \o get_ipv4_ips(adapters, a + 1)

(***************************************************************************)
(* The mDNS responders of the modelled network: what a completed resolve   *)
(* request loads into an AsyncServiceInfo, by instance name.               *)
(***************************************************************************)
Names == {"iPhone", "AppleTV"}

Packed_10_0_0_9 == <<10, 0, 0, 9>>
Packed_fe80_9 == <<254, 128, 0, 0, 0, 0, 0, 0, 0, 0, 0, 0, 0, 0, 0, 9>>
Packed_fe80_a == <<254, 128, 0, 0, 0, 0, 0, 0, 0, 0, 0, 0, 0, 0, 0, 10>>

\* A mapping is the set of its <<key, value>> pairs.
ServiceRecord(name) ==
    IF name = "iPhone"
    THEN [properties |-> {<<"UniqueDeviceID", "00008030">>},
          port |-> 49152,
          V4Only |-> <<Packed_10_0_0_9>>,
          V6Only |-> <<Packed_fe80_9>>]
    ELSE [properties |-> {<<"UniqueDeviceID", "00008110">>},
          port |-> 49153,
          V4Only |-> <<>>,
          V6Only |-> <<Packed_fe80_a>>]

\* An AsyncServiceInfo whose request loaded nothing (it timed out).
EmptyInfo == [properties |-> {}, port |-> NoPort, V4Only |-> <<>>, V6Only |-> <<>>]

\* No AsyncServiceInfo yet: query_addresses has not reached line 40.
NoInfo == [type |-> None, name |-> None, reply |-> "none"]

\* An AsyncServiceInfo whose request timed out after the address and SRV
\* records arrived and before the TXT record did.
PartialInfo(name) == [ServiceRecord(name) EXCEPT !.properties = {}]

\* How an async_request can end: the record is complete; the 3000 ms pass
\* with nothing loaded ("timeout") or with a part of the record loaded
\* ("partial"), which line 41 does not tell apart; or the request raises.
Replies == {"complete", "timeout", "partial", "error"}

\* The replies on which the request returns.
Returned == {"complete", "timeout", "partial"}

\* Mutant of Loaded: the port of the record is not extracted.
LoadedWithoutPort(info) ==
    CASE info.reply = "complete" -> [ServiceRecord(info.name) EXCEPT !.port = NoPort]
      [] info.reply = "partial" -> [PartialInfo(info.name) EXCEPT !.port = NoPort]
      [] OTHER -> EmptyInfo

\* The AsyncServiceInfo as query_addresses reads it after the request.
Loaded(info) ==
    CASE info.reply = "complete" -> ServiceRecord(info.name)
      [] info.reply = "partial" -> PartialInfo(info.name)
      [] OTHER -> EmptyInfo

\* The instances that answer on the link of an interface address: the
\* iPhone is on every link, the AppleTV on the link of en1 only.
Responders(ip) ==
    IF Split(ip, "%")[1] \in {Text_10_0_1_2, Text_fe80_7}
    THEN {"iPhone", "AppleTV"}
    ELSE {"iPhone"}

\* The interface lists a caller passes to browse directly: two IPv4
\* addresses on different links and one zoned IPv6 address.
InterfaceLists ==
    { <<Text_10_0_0_2,
        Text_10_0_2_2,
        Text_fe80_5 \o <<"%">> \o Text_en0>> }

\* The timeouts a caller passes: the platform's default or its own.
Timeouts(platform) == {DEFAULT_BONJOUR_TIMEOUT(platform), 5}

(***************************************************************************)
(* State.                                                                  *)
(***************************************************************************)
VARIABLES
    platform,       \* sys.platform
    entry,          \* the entry point the caller invoked, None before the call
    service_name,   \* browse's service_name
    timeout,        \* browse's timeout
    requested,      \* the timeout the caller passed to the entry point
    ips,            \* browse's ips: one session per element
    pc,             \* where browse is suspended
    cur,            \* the session the final loop of browse is at
    answers,        \* browse's answers
    addresses,      \* listener.addresses, by session
    properties,     \* listener.properties
    port,           \* listener.port
    queue,          \* listener.queue
    querying_task,  \* state of listener.querying_task
    must_cancel,    \* cancel() was called on the task and is not yet delivered
    service_info,   \* the AsyncServiceInfo of query_addresses, None before it
    service_browser,\* the AsyncServiceBrowser: "open" or "cancelled"
    zc,             \* the AsyncZeroconf client: "open" or "closed"
    closing,        \* listener.close(): "no", "awaiting", "returned", "raised"
    reclosing,      \* a second listener.close(): "no", "returned", "raised"
    completed       \* the sessions whose query_addresses ran to its end, in order

callVars == <<platform, entry, service_name, timeout, requested, ips>>
browseVars == <<pc, cur, answers>>
listenerVars == <<addresses, properties, port>>
taskVars == <<querying_task, must_cancel, service_info, completed>>
sessionVars == <<service_browser, zc, closing, reclosing>>
vars == <<callVars, browseVars, listenerVars, queue, taskVars, sessionVars>>

Sessions == 1..Len(ips)

\* A task that has ended: normally, by cancellation, or by an exception.
Done == {"finished", "cancelled", "failed"}

Init ==
    /\ platform \in Platforms
    /\ entry = None
    /\ service_name = None
    /\ timeout = DEFAULT_BONJOUR_TIMEOUT(platform)
    /\ requested = DEFAULT_BONJOUR_TIMEOUT(platform)
    /\ ips = <<>>
    /\ pc = "start"
    /\ cur = 0
    /\ answers = <<>>
    /\ addresses = <<>>
    /\ properties = <<>>
    /\ port = <<>>
    /\ queue = <<>>
    /\ querying_task = <<>>
    /\ must_cancel = <<>>
    /\ service_info = <<>>
    /\ service_browser = <<>>
    /\ zc = <<>>
    /\ closing = <<>>
    /\ reclosing = <<>>
    /\ completed = <<>>

(***************************************************************************)
(* browse, lines 93-95: one query_bonjour per interface address, then the  *)
(* shared sleep.  BonjourListener.__init__ creates the resolution task,    *)
(* which has not run yet.                                                  *)
(***************************************************************************)
browse(name, service, adapters_ips, t) ==
    /\ pc = "start"
    /\ entry' = name
    /\ service_name' = service
    /\ timeout' = t
    /\ ips' = adapters_ips
    /\ answers' = <<>>
    /\ addresses' = [i \in 1..Len(adapters_ips) |-> <<>>]
    /\ properties' = [i \in 1..Len(adapters_ips) |-> {}]
    /\ port' = [i \in 1..Len(adapters_ips) |-> NoPort]
    /\ queue' = [i \in 1..Len(adapters_ips) |-> <<>>]
    /\ querying_task' = [i \in 1..Len(adapters_ips) |-> "created"]
    /\ must_cancel' = [i \in 1..Len(adapters_ips) |-> FALSE]
    /\ service_info' = [i \in 1..Len(adapters_ips) |-> NoInfo]
    /\ service_browser' = [i \in 1..Len(adapters_ips) |-> "open"]
    /\ zc' = [i \in 1..Len(adapters_ips) |-> "open"]
    /\ closing' = [i \in 1..Len(adapters_ips) |-> "no"]
    /\ reclosing' = [i \in 1..Len(adapters_ips) |-> "no"]
    /\ pc' = "sleep"
    /\ UNCHANGED <<platform, cur, completed>>

browse_ipv6(name, service, t) ==
    \E adapters \in AdapterLists :
        browse(name, service, get_ipv6_ips(platform, adapters), t)

\* Mutant of browse_ipv4: the timeout of the caller is dropped for the default.
browse_ipv4_default(name, service, t) ==
    \E adapters \in AdapterLists :
        browse(name, service, get_ipv4_ips(adapters, 1),
               DEFAULT_BONJOUR_TIMEOUT(platform))

browse_ipv4(name, service, t) ==
    \E adapters \in AdapterLists :
        browse(name, service, get_ipv4_ips(adapters, 1), t)

\* The entry points: the caller passes a timeout, its own or the default.
browse_remoted ==
    \E t \in Timeouts(platform) :
        /\ requested' = t
        /\ browse_ipv6("browse_remoted", REMOTED_SERVICE_NAME, t)

browse_mobdev2 ==
    \E t \in Timeouts(platform) :
        /\ requested' = t
        /\ browse_ipv4("browse_mobdev2", MOBDEV2_SERVICE_NAME, t)

browse_remotepairing ==
    \E t \in Timeouts(platform) :
        /\ requested' = t
        /\ browse_ipv4("browse_remotepairing", REMOTEPAIRING_SERVICE_NAME, t)

\* A caller of browse itself, with its own interface list and the default
\* timeout.  browse does not read the platform: the direct call is explored
\* on one platform.
BrowseCall ==
    /\ platform = "linux"
    /\ requested' = DEFAULT_BONJOUR_TIMEOUT(platform)
    /\ \E l \in InterfaceLists :
          browse("browse", REMOTED_SERVICE_NAME, l, DEFAULT_BONJOUR_TIMEOUT(platform))

(***************************************************************************)
(* BonjourListener.                                                        *)
(***************************************************************************)
\* The tuple the browser hands to the callback.
Notification(i, name) ==
    [zeroconf |-> i, service_type |-> service_name, name |-> name,
     state_change |-> "Added"]

\* Notifications delivered to listener i so far: those queued and the one
\* the task took.
Delivered(i) == Len(queue[i]) + (IF service_info[i] = NoInfo THEN 0 ELSE 1)

\* Mutant of async_on_service_state_change: the handler only accepts a
\* notification while the task waits for one.
async_on_service_state_change_waiting(i, name) ==
    /\ service_browser[i] = "open"
    /\ name \in Responders(ips[i])
    /\ querying_task[i] = "get"
    /\ Delivered(i) < MaxNotifications
    /\ queue' = [queue EXCEPT ![i] = Append(@, Notification(i, name))]
    /\ UNCHANGED <<callVars, browseVars, listenerVars, taskVars, sessionVars>>

\* Lines 34-36.  The browser calls the handler while it is subscribed; the
\* event loop runs the first step of the task before any handler.
async_on_service_state_change(i, name) ==
    /\ service_browser[i] = "open"
    /\ name \in Responders(ips[i])
    /\ querying_task[i] # "created"
    /\ Delivered(i) < MaxNotifications
    /\ queue' = [queue EXCEPT ![i] = Append(@, Notification(i, name))]
    /\ UNCHANGED <<callVars, browseVars, listenerVars, taskVars, sessionVars>>

\* Lines 42-43: the IPv4 literals of the record.
RECURSIVE Ipv4Literals(_)
Ipv4Literals(packed) ==
    IF packed = <<>> THEN <<>>
    ELSE <<inet_ntop(AF_INET, Head(packed))>> \o Ipv4Literals(Tail(packed))

\* Mutant of Ipv6Literals: the wrong piece of the split, the address part.
RECURSIVE Ipv6LiteralsWrongPiece(_, _)
Ipv6LiteralsWrongPiece(packed, ip) ==
    IF packed = <<>> THEN <<>>
    ELSE <<inet_ntop(AF_INET6, Head(packed)) \o <<"%">> \o Split(ip, "%")[1]>>
         \o Ipv6LiteralsWrongPiece(Tail(packed), ip)

\* Lines 46-47: the IPv6 literals of the record with the zone of ip.
RECURSIVE Ipv6Literals(_, _)
Ipv6Literals(packed, ip) ==
    IF packed = <<>> THEN <<>>
    ELSE <<inet_ntop(AF_INET6, Head(packed)) \o <<"%">> \o Split(ip, "%")[2]>>
         \o Ipv6Literals(Tail(packed), ip)

\* Mutant of ResolvedAddresses: the IPv6 literals are reported on every
\* session, without a zone where the interface address has none.
ResolvedAddressesAnyZone(ip, info) ==
    LET ipv4 == Ipv4Literals(info.V4Only)
        ipv6 == IF Contains(ip, "%") THEN Ipv6Literals(info.V6Only, ip)
                ELSE [k \in 1..Len(info.V6Only) |->
                         inet_ntop(AF_INET6, info.V6Only[k])]
    IN  ipv4 \o ipv6

\* Lines 42-48: the value query_addresses assigns to self.addresses.
ResolvedAddresses(ip, info) ==
    LET ipv4 == Ipv4Literals(info.V4Only)
        ipv6 == IF Contains(ip, "%") THEN Ipv6Literals(info.V6Only, ip) ELSE <<>>
    IN  ipv4 \o ipv6

\* The first step of the task: query_addresses runs up to `await
\* self.queue.get()` on the empty queue.  The loop starts the tasks in the
\* order of their creation.
TaskStart(i) ==
    /\ pc = "sleep"
    /\ querying_task[i] = "created"
    /\ \A j \in 1..(i - 1) : querying_task[j] # "created"
    /\ querying_task' = [querying_task EXCEPT ![i] = "get"]
    /\ UNCHANGED <<callVars, browseVars, listenerVars, queue, must_cancel,
                   service_info, completed, sessionVars>>

\* Mutant of TaskGet: the task takes the last notification of the queue.
TaskGetLast(i) ==
    /\ querying_task[i] = "get"
    /\ ~must_cancel[i]
    /\ queue[i] # <<>>
    /\ queue' = [queue EXCEPT ![i] = SubSeq(@, 1, Len(@) - 1)]
    /\ service_info' = [service_info EXCEPT
                           ![i] = [type |-> queue[i][Len(queue[i])].service_type,
                                   name |-> queue[i][Len(queue[i])].name,
                                   reply |-> "pending"]]
    /\ querying_task' = [querying_task EXCEPT ![i] = "request"]
    /\ UNCHANGED <<callVars, browseVars, listenerVars, must_cancel, completed,
                   sessionVars>>

\* Lines 39-41: the task takes the first notification of the queue and
\* issues the resolve request, on which it suspends.
TaskGet(i) ==
    /\ querying_task[i] = "get"
    /\ ~must_cancel[i]
    /\ queue[i] # <<>>
    /\ queue' = [queue EXCEPT ![i] = Tail(@)]
    /\ service_info' = [service_info EXCEPT
                           ![i] = [type |-> Head(queue[i]).service_type,
                                   name |-> Head(queue[i]).name,
                                   reply |-> "pending"]]
    /\ querying_task' = [querying_task EXCEPT ![i] = "request"]
    /\ UNCHANGED <<callVars, browseVars, listenerVars, must_cancel, completed,
                   sessionVars>>

\* The request ends (the record is complete, the 3000 ms pass, or it fails)
\* and the wake-up of the task is scheduled.
RequestEnds(i, reply) ==
    /\ querying_task[i] = "request"
    /\ ~must_cancel[i]
    /\ service_info[i].reply = "pending"
    /\ service_info' = [service_info EXCEPT ![i].reply = reply]
    /\ UNCHANGED <<callVars, browseVars, listenerVars, queue, querying_task,
                   must_cancel, completed, sessionVars>>

\* Mutant of TaskResume: the task publishes the addresses and leaves the
\* properties and the port as they were.
TaskResumeAddressesOnly(i) ==
    /\ querying_task[i] = "request"
    /\ ~must_cancel[i]
    /\ service_info[i].reply \in Returned
    /\ addresses' = [addresses EXCEPT
                        ![i] = ResolvedAddresses(ips[i], Loaded(service_info[i]))]
    /\ querying_task' = [querying_task EXCEPT ![i] = "finished"]
    /\ completed' = Append(completed, i)
    /\ UNCHANGED <<callVars, browseVars, properties, port, queue, must_cancel,
                   service_info, sessionVars>>

\* Mutant of TaskResume: the task loops back to the queue for the next
\* notification instead of returning.
TaskResumeLoops(i) ==
    /\ querying_task[i] = "request"
    /\ ~must_cancel[i]
    /\ service_info[i].reply \in Returned
    /\ addresses' = [addresses EXCEPT
                        ![i] = ResolvedAddresses(ips[i], Loaded(service_info[i]))]
    /\ properties' = [properties EXCEPT ![i] = Loaded(service_info[i]).properties]
    /\ port' = [port EXCEPT ![i] = Loaded(service_info[i]).port]
    /\ querying_task' = [querying_task EXCEPT ![i] = "get"]
    /\ completed' = Append(completed, i)
    /\ UNCHANGED <<callVars, browseVars, queue, must_cancel, service_info,
                   sessionVars>>

\* Lines 42-50: the task wakes up from a request that returned and
\* publishes the result, with no suspension point in between.
TaskResume(i) ==
    /\ querying_task[i] = "request"
    /\ ~must_cancel[i]
    /\ service_info[i].reply \in Returned
    /\ addresses' = [addresses EXCEPT
                        ![i] = ResolvedAddresses(ips[i], Loaded(service_info[i]))]
    /\ properties' = [properties EXCEPT ![i] = Loaded(service_info[i]).properties]
    /\ port' = [port EXCEPT ![i] = Loaded(service_info[i]).port]
    /\ querying_task' = [querying_task EXCEPT ![i] = "finished"]
    /\ completed' = Append(completed, i)
    /\ UNCHANGED <<callVars, browseVars, queue, must_cancel, service_info,
                   sessionVars>>

\* Line 41 raises: the exception ends the task.
TaskRaises(i) ==
    /\ querying_task[i] = "request"
    /\ ~must_cancel[i]
    /\ service_info[i].reply = "error"
    /\ querying_task' = [querying_task EXCEPT ![i] = "failed"]
    /\ UNCHANGED <<callVars, browseVars, listenerVars, queue, must_cancel,
                   service_info, completed, sessionVars>>

\* Mutant of TaskCancelled: a task whose request had already returned
\* runs on to its assignments before it sees the cancellation.
TaskCancelledLate(i) ==
    /\ querying_task[i] \in {"get", "request"}
    /\ must_cancel[i]
    /\ IF service_info[i].reply \in Returned
       THEN /\ addresses' = [addresses EXCEPT
                               ![i] = ResolvedAddresses(ips[i], Loaded(service_info[i]))]
            /\ properties' = [properties EXCEPT
                                ![i] = Loaded(service_info[i]).properties]
            /\ port' = [port EXCEPT ![i] = Loaded(service_info[i]).port]
       ELSE UNCHANGED listenerVars
    /\ querying_task' = [querying_task EXCEPT ![i] = "cancelled"]
    /\ must_cancel' = [must_cancel EXCEPT ![i] = FALSE]
    /\ UNCHANGED <<callVars, browseVars, queue, service_info,
                   completed, sessionVars>>

\* The step of a task on which cancel() was called: CancelledError is
\* thrown into query_addresses at its await, also when the awaited request
\* had already ended.
TaskCancelled(i) ==
    /\ querying_task[i] \in {"get", "request"}
    /\ must_cancel[i]
    /\ querying_task' = [querying_task EXCEPT ![i] = "cancelled"]
    /\ must_cancel' = [must_cancel EXCEPT ![i] = FALSE]
    /\ UNCHANGED <<callVars, browseVars, listenerVars, queue, service_info,
                   completed, sessionVars>>

(***************************************************************************)
(* BonjourListener.close, lines 52-57.                                     *)
(***************************************************************************)
\* Mutant of Cancel: close does not cancel the task.
CancelNothing(task) == FALSE

\* Line 53: task.cancel() requests the cancellation of a task that has not
\* ended, and does nothing to one that has.
Cancel(task) == task \notin Done

\* Mutant of AwaitTask: close returns without waiting for the task to end.
AwaitTaskNoWait(task) ==
    IF task = "failed" THEN "raised" ELSE "returned"

\* Lines 54-57: `await self.querying_task` under the try.  A task that has
\* not ended suspends the caller; a cancelled one raises CancelledError,
\* which is discarded; a failed one raises its exception.
AwaitTask(task) ==
    IF task \notin Done THEN "awaiting"
    ELSE IF task = "failed" THEN "raised"
    ELSE "returned"

(***************************************************************************)
(* browse, lines 96-105.                                                   *)
(***************************************************************************)
BonjourAnswer(p, i, n) == [properties |-> p, ips |-> i, port |-> n]

InList(list, e) == \E k \in 1..Len(list) : list[k] = e

\* Mutant of Collect: no membership test.
CollectAll(list, answer) == Append(list, answer)

\* Mutant of Collect: a new answer goes to the front.
CollectFront(list, answer) ==
    IF ~InList(list, answer) THEN <<answer>> \o list ELSE list

\* Lines 100-101.
Collect(list, answer) ==
    IF ~InList(list, answer) THEN Append(list, answer) ELSE list

\* Mutant of HasAddresses: an answer is built from every session.
HasAddressesAlways(i) == TRUE

\* Line 97.
HasAddresses(i) == addresses[i] # <<>>

\* Where browse goes after listener.close() of the session ended or
\* suspended.
AfterClose(result) ==
    CASE result = "awaiting" -> "close"
      [] result = "returned" -> "async_cancel"
      [] result = "raised" -> "raise"

\* The loop from session i on, up to the next suspension point: lines
\* 97-102 for session i, or line 105 after the last session.
LoopFrom(i) ==
    IF i > Len(ips)
    THEN /\ pc' = "return"
         /\ cur' = i
         /\ UNCHANGED <<answers, must_cancel, closing>>
    ELSE /\ cur' = i
         /\ answers' = IF HasAddresses(i)
                       THEN Collect(answers,
                                    BonjourAnswer(properties[i], addresses[i], port[i]))
                       ELSE answers
         /\ must_cancel' = [must_cancel EXCEPT ![i] = Cancel(querying_task[i])]
         /\ closing' = [closing EXCEPT ![i] = AwaitTask(querying_task[i])]
         /\ pc' = AfterClose(AwaitTask(querying_task[i]))

\* Line 95 ends: the sleep is over once the loop has run what was ready,
\* the first steps of the tasks included.
Wake ==
    /\ pc = "sleep"
    /\ \A i \in Sessions : querying_task[i] # "created"
    /\ LoopFrom(1)
    /\ UNCHANGED <<callVars, listenerVars, queue, querying_task, service_info,
                   completed, service_browser, zc, reclosing>>

\* Line 55 resumes: the awaited task has ended.
CloseResumes ==
    /\ pc = "close"
    /\ querying_task[cur] \in Done
    /\ closing' = [closing EXCEPT ![cur] = AwaitTask(querying_task[cur])]
    /\ pc' = AfterClose(AwaitTask(querying_task[cur]))
    /\ UNCHANGED <<callVars, cur, answers, listenerVars, queue, taskVars,
                   service_browser, zc, reclosing>>

\* Line 103.
async_cancel ==
    /\ pc = "async_cancel"
    /\ service_browser' = [service_browser EXCEPT ![cur] = "cancelled"]
    /\ pc' = "async_close"
    /\ UNCHANGED <<callVars, cur, answers, listenerVars, queue, taskVars,
                   zc, closing, reclosing>>

\* Line 104, then the next iteration.
async_close ==
    /\ pc = "async_close"
    /\ zc' = [zc EXCEPT ![cur] = "closed"]
    /\ LoopFrom(cur + 1)
    /\ UNCHANGED <<callVars, listenerVars, queue, querying_task, service_info,
                   completed, service_browser, reclosing>>

\* A caller closes again a listener whose close has ended.
CloseAgain(i) ==
    /\ closing[i] \in {"returned", "raised"}
    /\ reclosing[i] = "no"
    /\ must_cancel' = [must_cancel EXCEPT ![i] = Cancel(querying_task[i])]
    /\ reclosing' = [reclosing EXCEPT ![i] = AwaitTask(querying_task[i])]
    /\ UNCHANGED <<callVars, browseVars, listenerVars, queue, querying_task,
                   service_info, completed, service_browser, zc, closing>>

(***************************************************************************)
(* Specifications.                                                         *)
(***************************************************************************)
Next ==
    \/ browse_remoted
    \/ browse_mobdev2
    \/ browse_remotepairing
    \/ BrowseCall
    \/ \E i \in Sessions : TaskStart(i)
    \/ \E i \in Sessions, name \in Names : async_on_service_state_change(i, name)
    \/ \E i \in Sessions : TaskGet(i)
    \/ \E i \in Sessions, reply \in Replies : RequestEnds(i, reply)
    \/ \E i \in Sessions : TaskResume(i)
    \/ \E i \in Sessions : TaskRaises(i)
    \/ \E i \in Sessions : TaskCancelled(i)
    \/ Wake
    \/ CloseResumes
    \/ async_cancel
    \/ async_close

Spec == Init /\ [][Next]_vars

\* browse, and callers that close a closed listener a second time.
NextClose == Next \/ \E i \in Sessions : CloseAgain(i)

SpecClose == Init /\ [][NextClose]_vars

\* The steps the event loop and the collaborator take on their own: a task
\* that is ready runs, a resolve request ends within its 3000 ms, the sleep
\* elapses, and the browser-cancel and client-close calls return.
SystemStep ==
    \/ \E i \in Sessions : TaskStart(i)
    \/ \E i \in Sessions : TaskGet(i)
    \/ \E i \in Sessions, reply \in Replies : RequestEnds(i, reply)
    \/ \E i \in Sessions : TaskResume(i)
    \/ \E i \in Sessions : TaskRaises(i)
    \/ \E i \in Sessions : TaskCancelled(i)
    \/ Wake
    \/ CloseResumes
    \/ async_cancel
    \/ async_close

\* browse on an event loop that keeps running.
FairSpec == Spec /\ WF_vars(SystemStep)

(***************************************************************************)
(* Vocabulary of the properties.                                           *)
(***************************************************************************)
\* browse has ended: it returned its answers, or an exception left it.
Ended == pc \in {"return", "raise"}

\* The sessions the final loop has inspected (line 97) so far.
Inspected == IF pc \in {"start", "sleep"} THEN {} ELSE {i \in Sessions : i <= cur}

\* The answer line 98 builds from the listener of session i.
AnswerOf(i) == BonjourAnswer(properties[i], addresses[i], port[i])

\* Session i is torn down: its task was cancelled and has ended, its
\* browser subscription is cancelled, its client is closed.
TornDown(i) ==
    /\ closing[i] # "no"
    /\ querying_task[i] \in Done
    /\ service_browser[i] = "cancelled"
    /\ zc[i] = "closed"

\* The zone of an interface address: what follows its first "%".
ZoneOf(ip) == SubSeq(ip, IndexOf(ip, "%", 1) + 1, Len(ip))

\* The address part of an interface address: what precedes its first "%".
AddressPart(ip) == SubSeq(ip, 1, IndexOf(ip, "%", 1) - 1)

IsIPv6Literal(text) == Contains(text, ":")

IsIPv4Literal(text) == Contains(text, ".") /\ ~Contains(text, ":")

EndsWith(text, suffix) ==
    /\ Len(text) >= Len(suffix)
    /\ SubSeq(text, Len(text) - Len(suffix) + 1, Len(text)) = suffix

Least(S) == CHOOSE i \in S : \A j \in S : i <= j

(***************************************************************************)
(* C1.  For an interface list of length N, browse creates exactly N        *)
(* sessions and, by the time it ends, has torn down exactly those N        *)
(* sessions (task cancelled, browser subscription cancelled, client        *)
(* closed), whatever the number of answers.                                *)
(***************************************************************************)
C1_CreatesAndClosesN ==
    /\ pc # "start" =>
          /\ Len(zc) = Len(ips)
          /\ Len(service_browser) = Len(ips)
          /\ Len(querying_task) = Len(ips)
    /\ Ended => Cardinality({i \in Sessions : TornDown(i)}) = Len(ips)

(***************************************************************************)
(* C2.  The answers of browse never hold two structurally equal entries:   *)
(* sessions that resolve to the same (properties, ips, port) yield one     *)
(* entry, whatever the interleaving.                                       *)
(***************************************************************************)
C2_NoDuplicateAnswers ==
    \A p, q \in 1..Len(answers) : p # q => answers[p] # answers[q]

\* browse returned one entry for two sessions that resolved to the same triple.
C2_Witness ==
    /\ pc = "return"
    /\ Len(answers) = 1
    /\ \E i, j \in Sessions :
          /\ i < j
          /\ addresses[i] # <<>>
          /\ AnswerOf(i) = AnswerOf(j)

(***************************************************************************)
(* C3.  The answers are in the interface order of the sessions that first  *)
(* produced them, whatever the order in which the resolutions completed;   *)
(* three sessions with pairwise distinct answers yield them as A, B, C.    *)
(***************************************************************************)
Producers(answer) ==
    {i \in Inspected : addresses[i] # <<>> /\ AnswerOf(i) = answer}

C3_InterfaceOrder ==
    /\ \A p \in 1..Len(answers) : Producers(answers[p]) # {}
    /\ \A p, q \in 1..Len(answers) :
          p < q => Least(Producers(answers[p])) < Least(Producers(answers[q]))
    /\ ( /\ pc = "return"
         /\ Len(ips) = 3
         /\ \A i \in Sessions : addresses[i] # <<>>
         /\ \A i, j \in Sessions : i # j => AnswerOf(i) # AnswerOf(j) )
       => answers = <<AnswerOf(1), AnswerOf(2), AnswerOf(3)>>

\* Three answers were returned although session 2 completed first and
\* session 1 last.
C3_Witness ==
    /\ pc = "return"
    /\ Len(answers) = 3
    /\ completed = <<2, 3, 1>>

(***************************************************************************)
(* C4.  Closing a listener never propagates an error to the caller,        *)
(* whatever the state of its task when close is called.                    *)
(***************************************************************************)
C4_CloseNeverRaises ==
    /\ \A i \in Sessions : closing[i] # "raised"
    /\ pc # "raise"

(***************************************************************************)
(* C5.  A second close of a listener that was already closed does not      *)
(* raise and leaves addresses, properties, port and the task as the first  *)
(* close left them.                                                        *)
(***************************************************************************)
C5_SecondCloseIdempotent ==
    [][\A i \in Sessions :
          CloseAgain(i) =>
              /\ reclosing'[i] # "raised"
              /\ UNCHANGED <<addresses, properties, port, querying_task>>]_vars

(***************************************************************************)
(* C6.  Every teardown step of every session is executed, also after an    *)
(* error in an earlier step or session: once browse has ended, no browser  *)
(* subscription and no client is left open.                                *)
(***************************************************************************)
C6_NothingLeaked ==
    Ended => \A i \in Sessions :
                 /\ service_browser[i] = "cancelled"
                 /\ zc[i] = "closed"

(***************************************************************************)
(* C7.  The teardown of a session is ordered: its task has ended before    *)
(* its browser subscription is cancelled, and the subscription is          *)
(* cancelled before its client is closed; no task is waiting on the queue  *)
(* or inside a request while its client is closed.                         *)
(***************************************************************************)
C7_TeardownOrder ==
    \A i \in Sessions :
        /\ service_browser[i] = "cancelled" =>
              /\ querying_task[i] \in Done
              /\ ~must_cancel[i]
              /\ closing[i] = "returned"
        /\ zc[i] = "closed" => service_browser[i] = "cancelled"
        /\ querying_task[i] \in {"created", "get", "request"} => zc[i] = "open"

\* A client is closed whose task was cancelled inside its resolve request.
C7_Witness ==
    \E i \in Sessions :
        /\ zc[i] = "closed"
        /\ querying_task[i] = "cancelled"
        /\ service_info[i].reply = "pending"

(***************************************************************************)
(* C8.  Every IPv6 literal of a returned answer ends in "%" and the zone   *)
(* of the interface address its session is bound to.                       *)
(***************************************************************************)
ListenerZoned(i) ==
    \A n \in 1..Len(addresses[i]) :
        IsIPv6Literal(addresses[i][n]) =>
            EndsWith(addresses[i][n], <<"%">> \o ZoneOf(ips[i]))

C8_ZonePropagated ==
    \A k \in 1..Len(answers) :
        \E i \in Inspected :
            /\ addresses[i] # <<>>
            /\ answers[k] = AnswerOf(i)
            /\ ListenerZoned(i)

\* The session bound to fe80::5%en0 returned an IPv6 literal.
C8_Witness ==
    /\ pc = "return"
    /\ \E i \in Sessions, k \in 1..Len(answers) :
          /\ ips[i] = Text_fe80_5 \o <<"%">> \o Text_en0
          /\ answers[k] = AnswerOf(i)
          /\ \E n \in 1..Len(answers[k].ips) :
                /\ IsIPv6Literal(answers[k].ips[n])
                /\ EndsWith(answers[k].ips[n], <<"%">> \o Text_en0)

(***************************************************************************)
(* C9.  A session yields an entry only if its listener received a          *)
(* notification and its resolve request completed before the session was   *)
(* inspected; a session that was never notified, whose request is pending, *)
(* or whose request timed out without addresses, has empty addresses,      *)
(* yields no entry and raises nothing.                                     *)
(***************************************************************************)
\* Session i had no result when it was inspected.
NoResult(i) ==
    \/ service_info[i].reply \in {"none", "pending", "timeout"}
    \/ querying_task[i] \in {"get", "request", "cancelled"}

C9_NoAnswerWithoutResolution ==
    /\ \A i \in Inspected :
          NoResult(i) =>
              /\ addresses[i] = <<>>
              /\ ~InList(answers, AnswerOf(i))
              /\ closing[i] # "raised"
    /\ \A k \in 1..Len(answers) :
          \E i \in Inspected :
              /\ answers[k] = AnswerOf(i)
              /\ querying_task[i] = "finished"
              /\ service_info[i].reply \in {"complete", "partial"}

\* browse returned one answer from three sessions: one was never notified,
\* one was cancelled inside its request, one resolved.
C9_Witness ==
    /\ pc = "return"
    /\ Len(answers) = 1
    /\ \E i, j \in Sessions :
          /\ service_info[i].reply = "none"
          /\ queue[i] = <<>>
          /\ querying_task[i] = "cancelled"
          /\ service_info[j].reply = "pending"
          /\ querying_task[j] = "cancelled"

(***************************************************************************)
(* C10.  On every platform and for every adapter list, an IPv4 scan holds  *)
(* only IPv4 addresses and never 127.0.0.1, and an IPv6 scan holds no      *)
(* entry whose address part is ::1 or fe80::1.                             *)
(***************************************************************************)
IPv4Scans == {"browse_mobdev2", "browse_remotepairing"}
IPv6Scans == {"browse_remoted"}

C10_ScanFilter ==
    /\ entry \in IPv4Scans =>
          \A k \in 1..Len(ips) : IsIPv4Literal(ips[k]) /\ ips[k] # LOOPBACK4
    /\ entry \in IPv6Scans =>
          \A k \in 1..Len(ips) : AddressPart(ips[k]) \notin {LOOPBACK6, LINKLOCAL1}

(***************************************************************************)
(* C11.  End to end: when a responder answers on two of three interfaces   *)
(* (notification delivered, resolve completed) and the third hears         *)
(* nothing, browse returns exactly two answers, in the order of the two    *)
(* interfaces, each with the port and the properties of its record, and    *)
(* the third interface contributes nothing.                                *)
(***************************************************************************)
\* The resolve of session i completed with the whole record.
Answered(i) ==
    /\ querying_task[i] = "finished"
    /\ service_info[i].reply = "complete"

\* No notification was ever delivered to session i.
Silent(i) ==
    /\ service_info[i].reply = "none"
    /\ queue[i] = <<>>

\* browse returned from three sessions of which i and j answered, k not.
TwoOfThree(i, j, k) ==
    /\ pc = "return"
    /\ Len(ips) = 3
    /\ {i, j, k} = {1, 2, 3}
    /\ i < j
    /\ Answered(i)
    /\ Answered(j)
    /\ Silent(k)

\* The entry of session i carries the port and properties of its record.
CarriesRecord(i) ==
    /\ AnswerOf(i).port = ServiceRecord(service_info[i].name).port
    /\ AnswerOf(i).properties = ServiceRecord(service_info[i].name).properties

\* The claim as stated: exactly two answers.
C11_ExactlyTwoAnswers ==
    \A i, j, k \in Sessions :
        TwoOfThree(i, j, k) =>
            /\ answers = <<AnswerOf(i), AnswerOf(j)>>
            /\ CarriesRecord(i)
            /\ CarriesRecord(j)
            /\ ~InList(answers, AnswerOf(k))

\* The claim as amended: the answers of the two sessions in interface
\* order, two equal answers merged into one.
C11_EndToEnd ==
    \A i, j, k \in Sessions :
        ( /\ TwoOfThree(i, j, k)
          /\ addresses[i] # <<>>
          /\ addresses[j] # <<>> )
        => /\ answers = IF AnswerOf(i) = AnswerOf(j)
                        THEN <<AnswerOf(i)>>
                        ELSE <<AnswerOf(i), AnswerOf(j)>>
           /\ CarriesRecord(i)
           /\ CarriesRecord(j)
           /\ addresses[k] = <<>>
           /\ ~InList(answers, AnswerOf(k))

\* Sessions 1 and 3 answered, session 2 heard nothing, two answers returned.
C11_Witness ==
    /\ TwoOfThree(1, 3, 2)
    /\ Len(answers) = 2
    /\ answers[1].ips # answers[2].ips

(***************************************************************************)
(* C12.  Every fixed entry point runs the scan and the service type bound  *)
(* to it and passes the timeout of its caller through unchanged:           *)
(* browse_remoted an IPv6 scan for "_remoted._tcp.local.", browse_mobdev2  *)
(* an IPv4 scan for "_apple-mobdev2._tcp.local.", browse_remotepairing an  *)
(* IPv4 scan for "_remotepairing-manual-pairing._tcp.local.".              *)
(***************************************************************************)
IsIPv6ScanOf(list) ==
    \E adapters \in AdapterLists : list = get_ipv6_ips(platform, adapters)

IsIPv4ScanOf(list) ==
    \E adapters \in AdapterLists : list = get_ipv4_ips(adapters, 1)

C12_EntryPoints ==
    /\ entry = "browse_remoted" =>
          /\ service_name = "_remoted._tcp.local."
          /\ IsIPv6ScanOf(ips)
          /\ timeout = requested
    /\ entry = "browse_mobdev2" =>
          /\ service_name = "_apple-mobdev2._tcp.local."
          /\ IsIPv4ScanOf(ips)
          /\ timeout = requested
    /\ entry = "browse_remotepairing" =>
          /\ service_name = "_remotepairing-manual-pairing._tcp.local."
          /\ IsIPv4ScanOf(ips)
          /\ timeout = requested

\* Each entry point was called with a timeout of the caller's own, and its
\* scan found interfaces.
C12_Witness ==
    /\ entry = "browse_remotepairing"
    /\ requested = 5
    /\ timeout = 5
    /\ ips = <<Text_10_0_0_2, Text_10_0_1_2>>
    /\ pc = "return"

(***************************************************************************)
(* C13.  Per session at most one notification is ever dequeued and at most *)
(* one resolve request is ever issued; the notification resolved is the    *)
(* first one enqueued, every later notification stays in the queue unread  *)
(* until the session is torn down, and a resolve that failed or timed out  *)
(* is not retried.                                                         *)
(***************************************************************************)
\* The queue of session i grows by one notification at its end.
Enqueues(i) ==
    \E name \in Names : queue'[i] = Append(queue[i], Notification(i, name))

\* The task of session i takes the head of the queue for its first and only
\* request.
DequeuesFirst(i) ==
    /\ service_info[i] = NoInfo
    /\ queue[i] # <<>>
    /\ queue'[i] = Tail(queue[i])
    /\ service_info'[i] = [type |-> Head(queue[i]).service_type,
                           name |-> Head(queue[i]).name,
                           reply |-> "pending"]

\* The request of session i has ended, whatever its outcome.
RequestOver(i) == service_info[i].reply \in Replies

C13_SingleResolve ==
    [][\A i \in Sessions :
          /\ queue'[i] # queue[i] => Enqueues(i) \/ DequeuesFirst(i)
          /\ service_info'[i] # service_info[i] =>
                \/ DequeuesFirst(i)
                \/ /\ service_info[i].reply = "pending"
                   /\ service_info'[i] \in
                         {[service_info[i] EXCEPT !.reply = r] : r \in Replies}
          /\ RequestOver(i) => service_info'[i] = service_info[i]
      ]_vars

\* A torn-down session whose request for the first notification timed out
\* and whose second notification, of another instance, is still queued.
C13_Witness ==
    \E i \in Sessions :
        /\ zc[i] = "closed"
        /\ service_info[i].name = "iPhone"
        /\ service_info[i].reply = "timeout"
        /\ queue[i] = <<Notification(i, "AppleTV")>>

(***************************************************************************)
(* C14.  A listener's lifecycle takes only the transitions Idle->Queued,   *)
(* Queued->Resolving, Resolving->Resolved and Resolving->Cancelled; there  *)
(* is one resolution task per listener, and once it has exited it never    *)
(* runs again and the listener's state never changes.                      *)
(***************************************************************************)
\* The lifecycle state of listener i: the position of its one task and
\* whether a notification waits for it.
Lifecycle(i) ==
    CASE querying_task[i] \in {"created", "get"} /\ queue[i] = <<>> -> "Idle"
      [] querying_task[i] \in {"created", "get"} /\ queue[i] # <<>> -> "Queued"
      [] querying_task[i] = "request" -> "Resolving"
      [] querying_task[i] = "finished" -> "Resolved"
      [] querying_task[i] = "cancelled" -> "Cancelled"
      [] querying_task[i] = "failed" -> "Failed"

\* The task of listener i has exited.
Exited(i) == querying_task[i] \in Done

\* An exited task never runs again and its listener keeps its results.
StaysExited(i) ==
    Exited(i) =>
        /\ querying_task'[i] = querying_task[i]
        /\ addresses'[i] = addresses[i]
        /\ properties'[i] = properties[i]
        /\ port'[i] = port[i]

StatedTransitions ==
    { <<"Idle", "Queued">>, <<"Queued", "Resolving">>,
      <<"Resolving", "Resolved">>, <<"Resolving", "Cancelled">> }

\* A session closed before its task got to a request is cancelled from
\* Idle or Queued; a resolve request that raises ends the task as failed.
CodeTransitions ==
    StatedTransitions \cup
    { <<"Idle", "Cancelled">>, <<"Queued", "Cancelled">>,
      <<"Resolving", "Failed">> }

\* The claim as stated: the four transitions only.
C14_StatedLifecycle ==
    [][\A i \in Sessions :
          /\ Lifecycle(i)' # Lifecycle(i) =>
                <<Lifecycle(i), Lifecycle(i)'>> \in StatedTransitions
          /\ StaysExited(i)
      ]_vars

\* The claim as amended: the transitions of the code.
C14_Lifecycle ==
    [][\A i \in Sessions :
          /\ Lifecycle(i)' # Lifecycle(i) =>
                <<Lifecycle(i), Lifecycle(i)'>> \in CodeTransitions
          /\ StaysExited(i)
      ]_vars

\* browse returned; one listener resolved, another was cancelled without
\* ever having received a notification.
C14_Witness ==
    /\ pc = "return"
    /\ \E i, j \in Sessions :
          /\ Lifecycle(i) = "Resolved"
          /\ addresses[i] # <<>>
          /\ Lifecycle(j) = "Cancelled"
          /\ service_info[j] = NoInfo
          /\ queue[j] = <<>>

(***************************************************************************)
(* C15.  browse always terminates: once the shared wait has elapsed, and   *)
(* provided the browser-cancel and client-close calls return, every        *)
(* session's cancelled task terminates, every session is eventually        *)
(* closed, and browse eventually returns its answer list, for every        *)
(* interleaving of notifications and resolutions.                          *)
(***************************************************************************)
\* The sleep of line 95 is over.
Woken == pc \notin {"start", "sleep"}

\* browse returned its list with every task ended and every session closed.
ReturnedAllClosed ==
    /\ pc = "return"
    /\ \A i \in Sessions : querying_task[i] \in Done /\ TornDown(i)

C15_AlwaysReturns == Woken ~> ReturnedAllClosed

(***************************************************************************)
(* C16.  The discovery callback is always enabled and never blocks or      *)
(* fails, in every listener state (before, during and after resolution,    *)
(* and after cancellation): it only appends one notification to the queue  *)
(* of its own session and leaves addresses, properties, port, the task     *)
(* state and every other session unchanged.                                *)
(***************************************************************************)
\* The browser of session i has a notification about instance name to
\* deliver: it is subscribed, the instance responds on the link, the loop
\* has started the task, and the notifications explored are not used up.
Notifiable(i, name) ==
    /\ service_browser[i] = "open"
    /\ name \in Responders(ips[i])
    /\ querying_task[i] # "created"
    /\ Delivered(i) < MaxNotifications

\* A step that lengthens the queue of session i appends one notification
\* to it and changes nothing else.
OnlyEnqueues(i) ==
    Len(queue'[i]) > Len(queue[i]) =>
        /\ Enqueues(i)
        /\ \A j \in Sessions \ {i} : queue'[j] = queue[j]
        /\ UNCHANGED <<callVars, browseVars, listenerVars, taskVars, sessionVars>>

C16_CallbackFrame ==
    /\ [](\A i \in Sessions, name \in Names :
             Notifiable(i, name) => ENABLED async_on_service_state_change(i, name))
    /\ [][\A i \in Sessions : OnlyEnqueues(i)]_vars

\* A cancelled task whose listener received a notification it never read,
\* and whose callback can still be called.
C16_Witness ==
    \E i \in Sessions :
        /\ querying_task[i] = "cancelled"
        /\ service_info[i] = NoInfo
        /\ Len(queue[i]) = 1
        /\ ENABLED async_on_service_state_change(i, "iPhone")

(***************************************************************************)
(* C17.  A session bound to an interface address without a zone suffix     *)
(* never reports an IPv6 literal: its addresses are the IPv4 literals of   *)
(* the resolved record only, so a record with IPv6 addresses only leaves   *)
(* addresses empty and the session contributes no answer.  A session bound *)
(* to a zoned IPv6 address reports the IPv4 literals of the record         *)
(* followed by its zoned IPv6 literals.                                    *)
(***************************************************************************)
\* The texts of the addresses of the records, written out.
Text_10_0_0_9 == <<"1", "0", ".", "0", ".", "0", ".", "9">>
Text_fe80_9 == <<"f", "e", "8", "0", ":", ":", "9">>
Text_fe80_a == <<"f", "e", "8", "0", ":", ":", "a">>

RecordIPv4Texts(name) ==
    IF name = "iPhone" THEN <<Text_10_0_0_9>> ELSE <<>>

RecordIPv6Texts(name) ==
    IF name = "iPhone" THEN <<Text_fe80_9>> ELSE <<Text_fe80_a>>

\* The texts of list, each followed by "%" and zone.
Zoned(list, zone) == [k \in 1..Len(list) |-> list[k] \o <<"%">> \o zone]

\* The task of session i published the addresses of a record.
Published(i) ==
    /\ querying_task[i] = "finished"
    /\ service_info[i].reply \in {"complete", "partial"}

C17_AddressFamilies ==
    \A i \in Sessions :
        Published(i) =>
            IF Contains(ips[i], "%")
            THEN addresses[i] =
                     RecordIPv4Texts(service_info[i].name)
                     \o Zoned(RecordIPv6Texts(service_info[i].name), ZoneOf(ips[i]))
            ELSE /\ addresses[i] = RecordIPv4Texts(service_info[i].name)
                 /\ \A k \in 1..Len(addresses[i]) : ~IsIPv6Literal(addresses[i][k])
                 /\ RecordIPv4Texts(service_info[i].name) = <<>> =>
                       ~InList(answers, AnswerOf(i))

\* browse returned; the session of the plain IPv4 interface resolved the
\* record with IPv6 addresses only and reported nothing, while the session
\* of another interface produced an answer.
C17_Witness ==
    /\ pc = "return"
    /\ \E i \in Sessions :
          /\ ~Contains(ips[i], "%")
          /\ Published(i)
          /\ service_info[i].name = "AppleTV"
          /\ service_info[i].reply = "complete"
          /\ addresses[i] = <<>>
    /\ Len(answers) = 1

(***************************************************************************)
(* C18.  The shared timeout wait is the only window in which a session can *)
(* resolve: a session whose resolution has not completed when the wait     *)
(* ends contributes no answer, that is, no listener's addresses change     *)
(* from empty to non-empty after the wait has ended, in particular not     *)
(* while earlier sessions of the list are being torn down.                 *)
(***************************************************************************)
\* Listener i has no addresses and keeps none in the step.
StaysEmpty(i) == addresses[i] = <<>> => addresses'[i] = <<>>

\* The claim as stated: nothing resolves once the sleep is over.
C18_WaitIsOnlyWindow ==
    [][Woken => \A i \in Sessions : StaysEmpty(i)]_vars

\* The claim as amended: nothing resolves once the loop has inspected the
\* session, and a task cancelled by the loop has published nothing.
C18_WindowEndsAtInspection ==
    /\ [](\A i \in Sessions :
             querying_task[i] = "cancelled" =>
                 /\ addresses[i] = <<>>
                 /\ ~InList(answers, AnswerOf(i)))
    /\ [][\A i \in Inspected : StaysEmpty(i)]_vars

\* browse returned; the first session was cancelled while its request was
\* pending and reported nothing, a later session reported an answer.
C18_Witness ==
    /\ pc = "return"
    /\ \E i, j \in Sessions :
          /\ i < j
          /\ querying_task[i] = "cancelled"
          /\ service_info[i].reply = "pending"
          /\ addresses[i] = <<>>
          /\ querying_task[j] = "finished"
          /\ answers = <<AnswerOf(j)>>

(***************************************************************************)
(* C19.  Resolution results are published atomically: in every reachable   *)
(* state in which a listener's addresses is non-empty, its port and        *)
(* properties are those of the same resolved record (the port is no longer *)
(* the initial unset value), so the orchestrator never builds an answer    *)
(* from the addresses of a record with the port or properties of the       *)
(* initial state.                                                          *)
(***************************************************************************)
C19_AtomicPublication ==
    /\ \A i \in Sessions :
          addresses[i] # <<>> =>
              /\ port[i] # NoPort
              /\ port[i] = ServiceRecord(service_info[i].name).port
              /\ properties[i] = Loaded(service_info[i]).properties
    /\ \A k \in 1..Len(answers) :
          /\ answers[k].port # NoPort
          /\ \E name \in Names :
                /\ answers[k].port = ServiceRecord(name).port
                /\ answers[k].properties \in
                      {ServiceRecord(name).properties, PartialInfo(name).properties}

\* The loop built an answer from a listener that published the addresses,
\* the port and the properties of the second instance.
C19_Witness ==
    \E i \in Inspected :
        /\ addresses[i] # <<>>
        /\ port[i] = 49153
        /\ properties[i] = ServiceRecord("AppleTV").properties
        /\ InList(answers, AnswerOf(i))

(***************************************************************************)
(* C20.  Once the orchestrator has inspected a session, the addresses,     *)
(* properties and port of that session never change again: the task is     *)
(* cancelled right after the read, with no suspension point in between,    *)
(* and a cancelled task never writes its result, even when its resolve     *)
(* request had already completed and its wake-up was pending.              *)
(***************************************************************************)
\* The listener of session i keeps what it published.
ResultsFrozen(i) ==
    /\ addresses'[i] = addresses[i]
    /\ properties'[i] = properties[i]
    /\ port'[i] = port[i]

C20_FrozenAfterInspection ==
    /\ [](\A i \in Inspected : querying_task[i] \in Done \/ must_cancel[i])
    /\ [][\A i \in Inspected : ResultsFrozen(i)]_vars

\* A task cancelled after its request had completed: the record was there,
\* the listener never published it.
C20_Witness ==
    \E i \in Inspected :
        /\ querying_task[i] = "cancelled"
        /\ service_info[i].reply = "complete"
        /\ addresses[i] = <<>>
        /\ properties[i] = {}
        /\ port[i] = NoPort
=============================================================================
